---- MODULE Spec2Model ----
(***************************************************************************)
(* A model of src/lib.rs: SelfRefer, a struct that keeps a raw pointer to  *)
(* its own field v, and the Pin discipline that keeps the pointer valid.   *)
(*                                                                         *)
(* Memory is a flat array of words.  A SelfRefer occupies two consecutive  *)
(* words of a storage location (a let binding): the word of `ptr` and the  *)
(* word of `v` (PhantomPinned has size zero).  A raw pointer is the        *)
(* address of a word; null is address 0, which is no word.                 *)
(***************************************************************************)
EXTENDS Naturals, FiniteSets, Sequences, TLC

\* Number of storage locations (let bindings) the program may use.
NSlots == 3
\* Payloads are 0..MaxVal.
MaxVal == 2

\* ptr::null()
Null == 0
\* Words of one SelfRefer: ptr and v.
StructWords == 2

Val == 0 .. MaxVal
Slot == 1 .. NSlots
Addr == 1 .. (StructWords * NSlots)

\* Address of the field ptr, and of the field v, of the struct stored at slot s.
PtrAddr(s) == (s - 1) * StructWords + 1
VAddr(s) == PtrAddr(s) + 1

\* Option<usize>
None == << >>
Some(x) == << x >>

VARIABLES
    mem,      \* the words of memory
    nlive,    \* slots 1..nlive are bound; the instance `sr` lives in slot nlive,
              \* the slots below hold what each relocation left behind
    pinned,   \* a Pin handle was taken on the instance at its current location
    moved,    \* the instance was relocated after it had been pinned
    estAt,    \* the slot the instance was in when refer_self last ran on it; 0: never
    expect,   \* the payload last given to the instance (by new, set, pinned_set)
    fresh,    \* no set or pinned_set has run on the instance since new
    last,     \* the last operation: its name, argument and result
    prev      \* the operation before it

vars == << mem, nlive, pinned, moved, estAt, expect, fresh, last, prev >>

\* The slot of the instance, and the slots of the storage it left behind.
cur == nlive
Old == 1 .. (nlive - 1)

\* refer_self ran on the instance where it is now; it ran on it at all.
est == nlive > 0 /\ estAt = cur
everEst == estAt # 0

----------------------------------------------------------------------------
\* The functions of impl SelfRefer, on memory.

\* Variants of new: the pointer taken at construction, before the value has
\* reached its storage; the argument dropped.
new_eager(v) == [ptr |-> VAddr(1), v |-> v]
new_default(v) == [ptr |-> Null, v |-> 0]

\* SelfRefer::new(v): the struct value.
new(v) == [ptr |-> Null, v |-> v]

\* Writing a struct value into the storage at s, and reading it back.
Store(m, s, st) == [m EXCEPT ![PtrAddr(s)] = st.ptr, ![VAddr(s)] = st.v]
Load(m, s) == [ptr |-> m[PtrAddr(s)], v |-> m[VAddr(s)]]

\* Variants of refer_self: the address of the wrong field; clearing a pointer
\* that is already set; the address of the first storage instead of `this`.
refer_self_wrong_field(m, s) == [m EXCEPT ![PtrAddr(s)] = PtrAddr(s)]
refer_self_toggle(m, s) ==
    [m EXCEPT ![PtrAddr(s)] = IF m[PtrAddr(s)] = Null THEN VAddr(s) ELSE Null]
refer_self_first_slot(m, s) == [m EXCEPT ![PtrAddr(s)] = VAddr(1)]

\* this.ptr = &this.v
refer_self(m, s) == [m EXCEPT ![PtrAddr(s)] = VAddr(s)]

\* Variants of referred: reading the field instead of the pointer; refusing a
\* pointer that is not the address of the own field.
referred_direct(m, s) == Some(m[VAddr(s)])
referred_checked(m, s) ==
    IF m[PtrAddr(s)] # VAddr(s) THEN None ELSE Some(m[m[PtrAddr(s)]])

\* unsafe { self.ptr.as_ref() }.copied()
referred(m, s) ==
    IF m[PtrAddr(s)] = Null THEN None ELSE Some(m[m[PtrAddr(s)]])

\* Variant of set: *self = Self::new(v)
set_rebuild(m, s, v) == [m EXCEPT ![PtrAddr(s)] = Null, ![VAddr(s)] = v]

\* self.v = v
set(m, s, v) == [m EXCEPT ![VAddr(s)] = v]

\* Variant of pinned_set: the write goes to a copy.
pinned_set_copy(m, s, v) == m

\* this.v = v, through the pinned handle
pinned_set(m, s, v) == [m EXCEPT ![VAddr(s)] = v]

\* Variant of the relocation: the old storage is overwritten before it is read.
replace_overwrite_first(m, a, b, w) ==
    Store(Store(m, a, new(w)), b, Load(Store(m, a, new(w)), a))

\* let mut sr = std::mem::replace(&mut sr, SelfRefer::new(w)):
\* the struct at a is moved to the fresh binding at b, a is overwritten.
\* The binding at a stays in scope, so its words stay readable: test_pin reads
\* them through a raw pointer taken before the move (v_ptr.read() is 420).
replace(m, a, b, w) == Store(Store(m, a, new(w)), b, Load(m, a))

----------------------------------------------------------------------------
\* A record of one operation.  old: the payload a mutator overwrote, or the
\* slot a relocation left.
Op(name, arg, ret, old) == [op |-> name, arg |-> arg, ret |-> ret, old |-> old]
NoOp == Op("none", None, None, None)

Init ==
    /\ mem = [a \in Addr |-> 0]
    /\ nlive = 0
    /\ pinned = FALSE
    /\ moved = FALSE
    /\ estAt = 0
    /\ expect = None
    /\ fresh = TRUE
    /\ last = NoOp
    /\ prev = NoOp

\* let mut sr = SelfRefer::new(v);
New(v) ==
    /\ nlive = 0
    /\ nlive' = 1
    /\ mem' = Store(mem, 1, new(v))
    /\ expect' = Some(v)
    /\ last' = Op("new", Some(v), None, None)
    /\ prev' = last
    /\ UNCHANGED << pinned, moved, estAt, fresh >>

\* sr.set(v)
Set(v) ==
    /\ nlive > 0
    /\ mem' = set(mem, cur, v)
    /\ expect' = Some(v)
    /\ fresh' = FALSE
    /\ last' = Op("set", Some(v), None, Some(mem[VAddr(cur)]))
    /\ prev' = last
    /\ UNCHANGED << nlive, pinned, moved, estAt >>

\* set on the instance that a relocation left in the old storage s
OldSet(s, v) ==
    /\ s \in Old
    /\ mem' = set(mem, s, v)
    /\ last' = Op("old_set", Some(v), None, Some(s))
    /\ prev' = last
    /\ UNCHANGED << nlive, pinned, moved, estAt, expect, fresh >>

\* let mut sr = std::mem::replace(&mut sr, SelfRefer::new(w));
Relocate(w) ==
    /\ nlive > 0
    /\ nlive < NSlots
    /\ nlive' = nlive + 1
    /\ mem' = replace(mem, cur, cur + 1, w)
    /\ pinned' = FALSE
    /\ moved' = (moved \/ pinned)
    /\ last' = Op("relocate", Some(w), None, Some(cur))
    /\ prev' = last
    /\ UNCHANGED << estAt, expect, fresh >>

\* let mut p = unsafe { Pin::new_unchecked(&mut sr) };
PinIt ==
    /\ nlive > 0
    /\ ~pinned
    /\ pinned' = TRUE
    /\ last' = Op("pin", None, None, None)
    /\ prev' = last
    /\ UNCHANGED << mem, nlive, moved, estAt, expect, fresh >>

\* p.as_mut().refer_self()
ReferSelf ==
    /\ pinned
    /\ mem' = refer_self(mem, cur)
    /\ estAt' = cur
    /\ last' = Op("refer_self", None, None, None)
    /\ prev' = last
    /\ UNCHANGED << nlive, pinned, moved, expect, fresh >>

\* p.as_ref().referred()
Referred ==
    /\ pinned
    /\ last' = Op("referred", None, referred(mem, cur), None)
    /\ prev' = last
    /\ UNCHANGED << mem, nlive, pinned, moved, estAt, expect, fresh >>

\* p.as_mut().pinned_set(v)
PinnedSet(v) ==
    /\ pinned
    /\ mem' = pinned_set(mem, cur, v)
    /\ expect' = Some(v)
    /\ fresh' = FALSE
    /\ last' = Op("pinned_set", Some(v), None, Some(mem[VAddr(cur)]))
    /\ prev' = last
    /\ UNCHANGED << nlive, pinned, moved, estAt >>

Next ==
    \/ \E v \in Val : New(v)
    \/ \E v \in Val : Set(v)
    \/ \E s \in Slot, v \in Val : OldSet(s, v)
    \/ \E w \in Val : Relocate(w)
    \/ PinIt
    \/ ReferSelf
    \/ Referred
    \/ \E v \in Val : PinnedSet(v)

Spec == Init /\ [][Next]_vars

TypeOK ==
    /\ mem \in [Addr -> 0 .. (StructWords * NSlots + MaxVal)]
    /\ nlive \in 0 .. NSlots
    /\ pinned \in BOOLEAN
    /\ moved \in BOOLEAN
    /\ estAt \in 0 .. NSlots
    /\ fresh \in BOOLEAN
    /\ expect \in {None} \cup {Some(v) : v \in Val}

----------------------------------------------------------------------------
\* The fields of the instance, as they are in memory.
Ptr == mem[PtrAddr(cur)]
V == mem[VAddr(cur)]

\* C1 (post-pin correctness): a read that directly follows refer_self returns
\* Some(v), v being the value the instance holds, which is the payload last
\* given to it.
C1_PostPin ==
    (last.op = "referred" /\ prev.op = "refer_self")
        => (last.ret = Some(V) /\ last.ret = expect)

C1_Witness ==
    /\ last.op = "referred"
    /\ prev.op = "refer_self"
    /\ last.ret = Some(MaxVal)

\* C2 (no premature reference): as long as refer_self has never run on the
\* instance, every read returns None, whatever set calls and relocations
\* came before.
C2_NoPremature ==
    (last.op = "referred" /\ ~everEst) => last.ret = None

C2_Witness ==
    /\ last.op = "referred"
    /\ ~everEst
    /\ ~fresh
    /\ nlive > 1
    /\ last.ret = None

\* C3 (mutation after pin): on an instance whose self-reference was established
\* where it is, a read that directly follows pinned_set(v2) returns Some(v2).
C3_MutationAfterPin ==
    (last.op = "referred" /\ prev.op = "pinned_set" /\ est)
        => last.ret = prev.arg

C3_Witness ==
    /\ last.op = "referred"
    /\ prev.op = "pinned_set"
    /\ est
    /\ prev.old # prev.arg
    /\ last.ret = prev.arg

\* C4 (relocation before pin): an instance created with v and relocated before
\* any pin, then pinned and established, reads Some(v): its own value, not the
\* one now in the storage it left.
C4_RelocationBeforePin ==
    (last.op = "referred" /\ prev.op = "refer_self" /\ fresh /\ ~moved /\ nlive > 1)
        => last.ret = expect

C4_Witness ==
    /\ last.op = "referred"
    /\ prev.op = "refer_self"
    /\ fresh
    /\ ~moved
    /\ nlive = NSlots
    /\ last.ret = expect
    /\ \A s \in Old : last.ret # Some(mem[VAddr(s)])

\* C5 (idempotent establishment): a refer_self that directly follows a
\* refer_self on the same instance, with no relocation in between, changes
\* neither ptr nor v nor any other word, and leaves the result of a read as it
\* was after the first call.
C5_Idempotent ==
    [][(last.op = "refer_self" /\ last'.op = "refer_self" /\ nlive' = nlive)
          => (mem' = mem /\ referred(mem', cur') = referred(mem, cur))]_vars

C5_Witness ==
    /\ last.op = "refer_self"
    /\ prev.op = "refer_self"
    /\ Ptr = VAddr(cur)
    /\ referred(mem, cur) = expect

\* C6 (invariant I3): while the instance has not been relocated after it was
\* pinned, a non-null ptr is the address of the instance's own v, so a read
\* returns the current value and never the content of another storage.
C6_I3 ==
    (nlive > 0 /\ ~moved /\ Ptr # Null)
        => /\ Ptr = VAddr(cur)
           /\ referred(mem, cur) = Some(V)
           /\ last.op = "referred" => last.ret = Some(V)

C6_Witness ==
    /\ nlive > 1
    /\ ~moved
    /\ Ptr # Null
    /\ ~fresh
    /\ last.op = "referred"
    /\ \E s \in Old : mem[VAddr(s)] # V

\* C7 (invariant I1): an instance that has never been pinned has a null ptr,
\* also the instances left in old storage; and ptr changes only in a step of
\* refer_self, which runs through the pinning handle.
InstPtr == IF nlive = 0 THEN Null ELSE Ptr

C7_I1State ==
    /\ (nlive > 0 /\ ~pinned /\ ~moved) => Ptr = Null
    /\ \A s \in Old : mem[PtrAddr(s)] = Null

C7_I1Step == (InstPtr' # InstPtr) => (last'.op = "refer_self" /\ pinned /\ pinned')

C7_I1 == []C7_I1State /\ [][C7_I1Step]_vars

C7_Witness ==
    /\ last.op = "refer_self"
    /\ prev.op = "pin"
    /\ nlive > 1
    /\ ~moved
    /\ ~fresh
    /\ Ptr # Null

\* C8 (create): new(v) can always run; the instance it makes holds v, has a null
\* ptr and is not pinned; creating a second instance, which the relocation
\* of the test does in the storage the first one leaves, changes neither field
\* of the first.
C8_CreateState ==
    /\ nlive = 0 => \A v \in Val : ENABLED New(v)
    /\ last.op = "new"
          => /\ Load(mem, cur) = [ptr |-> Null, v |-> last.arg[1]]
             /\ ~pinned /\ ~moved /\ ~everEst

C8_CreateStep ==
    (last'.op = "relocate" /\ nlive' = nlive + 1)
        => /\ Load(mem', cur) = [ptr |-> Null, v |-> last'.arg[1]]
           /\ Load(mem', cur') = Load(mem, cur)
           /\ \A s \in Old : Load(mem', s) = Load(mem, s)
           /\ ~pinned'

C8_Create == []C8_CreateState /\ [][C8_CreateStep]_vars

C8_Witness ==
    /\ last.op = "relocate"
    /\ prev.op = "new"
    /\ Load(mem, cur) = [ptr |-> Null, v |-> prev.arg[1]]
    /\ Load(mem, last.old[1]) = [ptr |-> Null, v |-> last.arg[1]]
    /\ prev.arg # last.arg

\* C9 (frame of the mutators): a step of set or pinned_set writes its argument
\* to the word of v and changes no other word, so ptr and the location of the
\* instance stay as they are, whether ptr is null or not.
C9_FrameStep ==
    /\ (last'.op \in {"set", "pinned_set"})
          => /\ nlive' = nlive
             /\ mem'[VAddr(cur)] = last'.arg[1]
             /\ \A a \in Addr \ {VAddr(cur)} : mem'[a] = mem[a]
    /\ (last'.op = "old_set")
          => /\ nlive' = nlive
             /\ mem'[VAddr(last'.old[1])] = last'.arg[1]
             /\ \A a \in Addr \ {VAddr(last'.old[1])} : mem'[a] = mem[a]

C9_Frame == [][C9_FrameStep]_vars

C9_Witness ==
    /\ last.op = "pinned_set"
    /\ prev.op = "set"
    /\ last.old # last.arg
    /\ prev.old # prev.arg
    /\ Ptr = VAddr(cur)

C9_WitnessNull ==
    /\ last.op = "pinned_set"
    /\ prev.op = "set"
    /\ last.old # last.arg
    /\ prev.old # prev.arg
    /\ Ptr = Null

\* C10 (relocation after establishment): once an established instance has been
\* relocated and until refer_self runs again, ptr is still the address of v in
\* the storage it left, which is not the address of its own v, and a read
\* returns Some of what that storage holds now, with no error; a read that
\* directly follows a new refer_self on the relocated instance returns Some of
\* the instance's value.
Stale == nlive > 0 /\ estAt # 0 /\ estAt # cur

C10_RelocationAfterPin ==
    /\ Stale
          => /\ Ptr = VAddr(estAt)
             /\ Ptr # VAddr(cur)
             /\ referred(mem, cur) = Some(mem[VAddr(estAt)])
             /\ last.op = "referred" => last.ret = Some(mem[VAddr(estAt)])
    /\ (last.op = "referred" /\ prev.op = "refer_self" /\ moved)
          => (last.ret = Some(V) /\ last.ret = expect)

C10_Witness ==
    /\ last.op = "referred"
    /\ Stale
    /\ last.ret = Some(mem[VAddr(estAt)])
    /\ last.ret # expect

C10_WitnessRederived ==
    /\ last.op = "referred"
    /\ prev.op = "refer_self"
    /\ moved
    /\ nlive > 1
    /\ last.ret = expect
    /\ \A s \in Old : last.ret # Some(mem[VAddr(s)])

\* C11 (in-place mutation in every lifecycle state): plain set(v2) on an
\* instance established where it is leaves ptr the address of its own v, so a
\* read that directly follows returns Some(v2); and from every state of the
\* instance set and pinned_set with the same argument give the same memory.
C11_SetWhenEstablished ==
    /\ (last.op = "set" /\ est)
          => (Ptr = VAddr(cur) /\ referred(mem, cur) = last.arg)
    /\ (last.op = "referred" /\ prev.op = "set" /\ est)
          => last.ret = prev.arg
    /\ nlive > 0
          => \A v \in Val : set(mem, cur, v) = pinned_set(mem, cur, v)

C11_Witness ==
    /\ last.op = "referred"
    /\ prev.op = "set"
    /\ est
    /\ prev.old # prev.arg
    /\ last.ret = prev.arg
    /\ set(mem, cur, MaxVal) = pinned_set(mem, cur, MaxVal)
    /\ set(mem, cur, MaxVal) # mem

\* C12 (establishment is permanent): no step makes a non-null ptr null, and a
\* read of a non-null ptr returns Some; a read returns Some only of a non-null
\* ptr.  So after a read that returned Some, no later read returns None.
C12_PermanentState ==
    (last.op = "referred" /\ last.ret # None) => InstPtr # Null

C12_PermanentStep ==
    (InstPtr # Null)
        => /\ InstPtr' # Null
           /\ last'.op = "referred" => last'.ret # None

C12_Permanent == []C12_PermanentState /\ [][C12_PermanentStep]_vars

C12_Witness ==
    /\ last.op = "referred"
    /\ last.ret # None
    /\ prev.op \in {"set", "pinned_set", "refer_self"}
    /\ pinned
    /\ ~moved
    /\ ~fresh

\* C13 (read is a pure observation): a step of referred changes no word of
\* memory, neither the location nor the pinning of the instance; its result is
\* None exactly when ptr is null and otherwise Some of the word ptr points at;
\* a read that directly follows a read returns the same result.
C13_PureState ==
    (last.op = "referred" /\ prev.op = "referred") => last.ret = prev.ret

C13_PureStep ==
    (last'.op = "referred")
        => /\ mem' = mem
           /\ nlive' = nlive
           /\ pinned' = pinned
           /\ (last'.ret = None) <=> (Ptr = Null)
           /\ Ptr # Null => last'.ret = Some(mem[Ptr])

C13_Pure == []C13_PureState /\ [][C13_PureStep]_vars

C13_Witness ==
    /\ last.op = "referred"
    /\ prev.op = "referred"
    /\ last.ret = prev.ret
    /\ last.ret # None
    /\ last.ret = Some(mem[Ptr])
====
